---- MODULE Spec2Model ----
(***************************************************************************)
(* Model of the Sketchboard scraping pipeline:                             *)
(*   scripts/merge_csv.py                 -- the Merger                    *)
(*   fetch_sketchboard_drinkdraw.py       -- the extraction entry point    *)
(*   scripts/fetch_sketchboard_drinkdraw.py -- its older variant           *)
(*                                                                         *)
(* A Python str is a sequence of one-character strings, so that lower(),   *)
(* strip(), the `in` substring test and the code-point order used by       *)
(* sort() are computed and not assumed.                                    *)
(***************************************************************************)
EXTENDS Integers, Sequences, FiniteSets, TLC

(***************************************************************************)
(* Python str primitives                                                   *)
(***************************************************************************)

\* The characters that occur in the model, in code-point (ASCII) order;
\* "NUL" stands for chr(0).
Chars ==
  << "NUL", "\t", "\n", "\r", " ", "$", "&", "(", ")", ",", "-", ".", "/",
     "0", "1", "2", "3", "4", "5", "6", "7", "8", "9", ":", "@",
     "A", "B", "C", "D", "E", "F", "G", "H", "I", "J", "K", "L", "M",
     "N", "O", "P", "Q", "R", "S", "T", "U", "V", "W", "X", "Y", "Z", "_",
     "a", "b", "c", "d", "e", "f", "g", "h", "i", "j", "k", "l", "m",
     "n", "o", "p", "q", "r", "s", "t", "u", "v", "w", "x", "y", "z" >>

Upper ==
  << "A", "B", "C", "D", "E", "F", "G", "H", "I", "J", "K", "L", "M",
     "N", "O", "P", "Q", "R", "S", "T", "U", "V", "W", "X", "Y", "Z" >>

Lower ==
  << "a", "b", "c", "d", "e", "f", "g", "h", "i", "j", "k", "l", "m",
     "n", "o", "p", "q", "r", "s", "t", "u", "v", "w", "x", "y", "z" >>

Whitespace == {"\t", "\n", "\r", " "}

\* ord(c), up to an order-preserving renumbering
ord(c) == CHOOSE i \in 1..Len(Chars) : Chars[i] = c

lower_char(c) ==
  IF \E i \in 1..Len(Upper) : Upper[i] = c
    THEN Lower[CHOOSE i \in 1..Len(Upper) : Upper[i] = c]
    ELSE c

\* str.lower()
RECURSIVE lower(_)
lower(s) ==
  IF s = <<>> THEN <<>> ELSE <<lower_char(Head(s))>> \o lower(Tail(s))

\* str.lstrip() / str.rstrip() / str.strip()
RECURSIVE lstrip(_)
lstrip(s) ==
  IF s # <<>> /\ Head(s) \in Whitespace THEN lstrip(Tail(s)) ELSE s

RECURSIVE rstrip(_)
rstrip(s) ==
  IF s # <<>> /\ s[Len(s)] \in Whitespace
    THEN rstrip(SubSeq(s, 1, Len(s) - 1))
    ELSE s

strip(s) == rstrip(lstrip(s))

\* `sub in s`
contains(sub, s) ==
  \E i \in 0..(Len(s) - Len(sub)) : SubSeq(s, i + 1, i + Len(sub)) = sub

\* s.startswith(pre)
startswith(s, pre) == Len(pre) <= Len(s) /\ SubSeq(s, 1, Len(pre)) = pre

\* a < b on str: lexicographic by code point, a proper prefix is smaller
str_lt(a, b) ==
  LET n == IF Len(a) < Len(b) THEN Len(a) ELSE Len(b)
      d == {i \in 1..n : a[i] # b[i]}
  IN  IF d = {}
        THEN Len(a) < Len(b)
        ELSE LET i == CHOOSE k \in d : \A m \in d : k <= m
             IN  ord(a[i]) < ord(b[i])

\* x < y on equal-length tuples of str
tuple_lt(x, y) ==
  LET d == {i \in 1..Len(x) : x[i] # y[i]}
  IN  d # {} /\ LET i == CHOOSE k \in d : \A m \in d : k <= m
                IN  str_lt(x[i], y[i])

(***************************************************************************)
(* scripts/merge_csv.py                                                    *)
(***************************************************************************)

HEADERS ==
  << "date", "venue", "title", "category", "event_type", "start_time",
     "end_time", "price_text", "is_museum", "museum_name", "event_url",
     "notes" >>

HeaderSet == {HEADERS[i] : i \in 1..Len(HEADERS)}

\* the text of each column name, as it stands in the header line of a file
HeaderText ==
  [ date        |-> <<"d","a","t","e">>,
    venue       |-> <<"v","e","n","u","e">>,
    title       |-> <<"t","i","t","l","e">>,
    category    |-> <<"c","a","t","e","g","o","r","y">>,
    event_type  |-> <<"e","v","e","n","t","_","t","y","p","e">>,
    start_time  |-> <<"s","t","a","r","t","_","t","i","m","e">>,
    end_time    |-> <<"e","n","d","_","t","i","m","e">>,
    price_text  |-> <<"p","r","i","c","e","_","t","e","x","t">>,
    is_museum   |-> <<"i","s","_","m","u","s","e","u","m">>,
    museum_name |-> <<"m","u","s","e","u","m","_","n","a","m","e">>,
    event_url   |-> <<"e","v","e","n","t","_","u","r","l">>,
    notes       |-> <<"n","o","t","e","s">> ]

\* "Auto-imported from sketchboard.co/schedule"
MARKER ==
  << "A","u","t","o","-","i","m","p","o","r","t","e","d"," ","f","r","o","m",
     " ","s","k","e","t","c","h","b","o","a","r","d",".","c","o","/","s","c",
     "h","e","d","u","l","e" >>

\* A file is absent, or a sequence of CSV lines; a line is the sequence of
\* its cells.  (The csv module's quoting round-trips every cell, so a line is
\* kept parsed.)
NoFile == [exists |-> FALSE, lines |-> <<>>]

EmptyFile == [exists |-> TRUE, lines |-> <<>>]

HeaderLine == [i \in 1..Len(HEADERS) |-> HeaderText[HEADERS[i]]]

RowLine(row) == [i \in 1..Len(HEADERS) |-> row[HEADERS[i]]]

\* csv.DictReader's row.get(h, ""): the cell under the column named h, None
\* (here <<>>, since `or ""` follows) when the line is short or the column
\* is missing
dict_get(fieldnames, line, h) ==
  LET js == {j \in 1..Len(fieldnames) :
                fieldnames[j] = HeaderText[h] /\ j <= Len(line)}
  IN  IF js = {} THEN <<>>
      ELSE line[CHOOSE j \in js : \A m \in js : m <= j]

read_csv(p) ==
  IF ~p.exists \/ p.lines = <<>> THEN <<>>
  ELSE LET fieldnames == p.lines[1]
           data == SelectSeq(Tail(p.lines), LAMBDA l : l # <<>>)
       IN  [i \in 1..Len(data) |->
              [h \in HeaderSet |-> strip(dict_get(fieldnames, data[i], h))]]

\* the complete content write_csv(p, rows) leaves in p
write_csv(rows) ==
  [exists |-> TRUE,
   lines  |-> <<HeaderLine>> \o [i \in 1..Len(rows) |-> RowLine(rows[i])]]

\* key without the .lower() of lines 28-29
key_no_lower(row) ==
  <<row.date, strip(row.venue), strip(row.title), strip(row.start_time)>>

key(row) ==
  << row.date,
     strip(lower(row.venue)),
     strip(lower(row.title)),
     strip(row.start_time) >>

\* line 41 without its condition: the stale rows stay
cleaned_keep_all(base_rows) == base_rows

\* main, line 41
cleaned(base_rows) ==
  SelectSeq(base_rows, LAMBDA r : ~contains(MARKER, r.notes))

\* main, lines 47-54
RECURSIVE dedupe_loop(_, _, _, _)
dedupe_loop(merged, i, seen, uniq) ==
  IF i > Len(merged) THEN uniq
  ELSE LET k == key(merged[i])
       IN  IF k \in seen
             THEN dedupe_loop(merged, i + 1, seen, uniq)
             ELSE dedupe_loop(merged, i + 1, seen \cup {k},
                              Append(uniq, merged[i]))

\* a de-duplication that keeps the last row of a key, not the first
RECURSIVE dedupe_keep_last(_)
dedupe_keep_last(merged) ==
  IF merged = <<>> THEN <<>>
  ELSE IF \E j \in 2..Len(merged) : key(merged[j]) = key(Head(merged))
         THEN dedupe_keep_last(Tail(merged))
         ELSE <<Head(merged)>> \o dedupe_keep_last(Tail(merged))

dedupe(merged) == dedupe_loop(merged, 1, {}, <<>>)

\* the sort key with venue before start_time
sort_key_venue_first(r) == <<r.date, r.venue, r.start_time, r.title>>

\* main, line 57: the sort key
sort_key(r) == <<r.date, r.start_time, r.venue, r.title>>

\* list.sort(key=...) is stable: an element goes after every element that
\* does not compare greater
RECURSIVE insert_sorted(_, _)
insert_sorted(sorted, r) ==
  IF sorted = <<>> THEN <<r>>
  ELSE IF tuple_lt(sort_key(r), sort_key(Head(sorted)))
         THEN <<r>> \o sorted
         ELSE <<Head(sorted)>> \o insert_sorted(Tail(sorted), r)

\* main without line 57: the rows stay as de-duplicated
sort_rows_none(rows) == rows

RECURSIVE sort_rows(_)
sort_rows(rows) ==
  IF rows = <<>> THEN <<>>
  ELSE insert_sorted(sort_rows(SubSeq(rows, 1, Len(rows) - 1)),
                     rows[Len(rows)])

\* main, lines 41-57: from the rows read to the rows to write
merge_rows(base_rows, auto_rows) ==
  sort_rows(dedupe(cleaned(base_rows) \o auto_rows))

(***************************************************************************)
(* fetch_sketchboard_drinkdraw.py and scripts/fetch_sketchboard_drinkdraw.py*)
(***************************************************************************)

Digits == <<"0", "1", "2", "3", "4", "5", "6", "7", "8", "9">>

DigitSet == {Digits[i] : i \in 1..Len(Digits)}

\* [A-Za-z]
LetterSet == {Upper[i] : i \in 1..Len(Upper)} \cup {Lower[i] : i \in 1..Len(Lower)}

upper_char(c) ==
  IF \E i \in 1..Len(Lower) : Lower[i] = c
    THEN Upper[CHOOSE i \in 1..Len(Lower) : Lower[i] = c]
    ELSE c

\* str.upper()
RECURSIVE upper(_)
upper(s) ==
  IF s = <<>> THEN <<>> ELSE <<upper_char(Head(s))>> \o upper(Tail(s))

\* int() of a string of digits
RECURSIVE int_of(_)
int_of(s) ==
  IF s = <<>> THEN 0
  ELSE 10 * int_of(SubSeq(s, 1, Len(s) - 1))
         + (CHOOSE d \in 0..9 : Digits[d + 1] = s[Len(s)])

\* "%02d" % n
two_digits(n) == <<Digits[(n \div 10) + 1], Digits[(n % 10) + 1]>>

\* the index after the longest run of characters of S (of characters not in
\* S, for span_not) that starts at index i of s
span(s, i, S) ==
  LET stop == {j \in i..Len(s) : s[j] \notin S}
  IN  IF stop = {} THEN (IF i > Len(s) THEN i ELSE Len(s) + 1)
      ELSE CHOOSE j \in stop : \A m \in stop : j <= m

span_not(s, i, S) ==
  LET stop == {j \in i..Len(s) : s[j] \in S}
  IN  IF stop = {} THEN (IF i > Len(s) THEN i ELSE Len(s) + 1)
      ELSE CHOOSE j \in stop : \A m \in stop : j <= m

\* s[i:].startswith(pre), i from 1
starts_at(s, i, pre) ==
  i + Len(pre) - 1 <= Len(s) /\ SubSeq(s, i, i + Len(pre) - 1) = pre

char_at(s, i) == IF i >= 1 /\ i <= Len(s) THEN s[i] ELSE "NUL"

\* a local variable of the code: x = v, then F(x)
Bind(v, F(_)) == CHOOSE r \in {F(x) : x \in {v}} : TRUE

\* " ".join(s.split())
RECURSIVE split_ws(_)
split_ws(s) ==
  Bind(lstrip(s), LAMBDA t :
    IF t = <<>> THEN <<>>
    ELSE Bind(span_not(t, 1, Whitespace), LAMBDA e :
           <<SubSeq(t, 1, e - 1)>> \o split_ws(SubSeq(t, e, Len(t)))))

RECURSIVE join(_, _)
join(sep, parts) ==
  IF parts = <<>> THEN <<>>
  ELSE IF Len(parts) = 1 THEN parts[1]
  ELSE parts[1] \o sep \o join(sep, Tail(parts))

collapse(s) == join(<<" ">>, split_ws(s))

\* s.split("\n")
RECURSIVE split_lines(_)
split_lines(s) ==
  Bind(s, LAMBDA t :
    Bind(span_not(t, 1, {"\n"}), LAMBDA e :
      IF e > Len(t) THEN <<t>>
      ELSE <<SubSeq(t, 1, e - 1)>> \o split_lines(SubSeq(t, e + 1, Len(t)))))

\* s.replace(" ", "")
remove_spaces(s) == SelectSeq(s, LAMBDA c : c # " ")

\* 'https://www.sketchboard.co'
SITE ==
  <<"h","t","t","p","s",":","/","/","w","w","w",".","s","k","e","t","c","h",
       "b","o","a","r","d",".","c","o">>

\* 'http'
HTTP ==
  <<"h","t","t","p">>

\* 'sketchboard.co'
SKETCHBOARD_CO ==
  <<"s","k","e","t","c","h","b","o","a","r","d",".","c","o">>

\* 'View Event'
VIEW_EVENT ==
  <<"V","i","e","w"," ","E","v","e","n","t">>

\* 'Figure Drawing'
FIGURE_DRAWING ==
  <<"F","i","g","u","r","e"," ","D","r","a","w","i","n","g">>

\* 'Drink & Draw'
DRINK_AND_DRAW ==
  <<"D","r","i","n","k"," ","&"," ","D","r","a","w">>

\* 'Sketchboard (Figure Session)'
FIGURE_VENUE ==
  <<"S","k","e","t","c","h","b","o","a","r","d"," ","(","F","i","g","u","r",
       "e"," ","S","e","s","s","i","o","n",")">>

\* 'Sketchboard @ Madrone Art Bar'
MADRONE_VENUE ==
  <<"S","k","e","t","c","h","b","o","a","r","d"," ","@"," ","M","a","d","r",
       "o","n","e"," ","A","r","t"," ","B","a","r">>

\* '$15 CASH ONLY @ the door (per Sketchboard schedule)'
DEFAULT_PRICE ==
  <<"$","1","5"," ","C","A","S","H"," ","O","N","L","Y"," ","@"," ","t","h",
       "e"," ","d","o","o","r"," ","(","p","e","r"," ","S","k","e","t","c",
       "h","b","o","a","r","d"," ","s","c","h","e","d","u","l","e",")">>

\* 'Sketchboard'
SKETCHBOARD ==
  <<"S","k","e","t","c","h","b","o","a","r","d">>

\* 'madrone'
MADRONE_LC ==
  <<"m","a","d","r","o","n","e">>

\* 'Madrone'
MADRONE_CAP ==
  <<"M","a","d","r","o","n","e">>

\* 'drink'
DRINK ==
  <<"d","r","i","n","k">>

\* 'draw'
DRAW ==
  <<"d","r","a","w">>

\* 'no'
NO ==
  <<"n","o">>

\* main, line 58
figure_terms ==
  << <<"f","i","g","u","r","e">>,
     <<"l","i","f","e"," ","d","r","a","w","i","n","g">>,
     <<"m","o","d","e","l"," ","s","e","s","s","i","o","n">>,
     <<"o","p","e","n"," ","s","t","u","d","i","o"," ","(","f","i","g","u","r",
          "e",")">>,
     <<"g","e","s","t","u","r","e">> >>

\* the weekday names of the date pattern, main line 92
Weekdays ==
  << <<"M","o","n","d","a","y">>,
     <<"T","u","e","s","d","a","y">>,
     <<"W","e","d","n","e","s","d","a","y">>,
     <<"T","h","u","r","s","d","a","y">>,
     <<"F","r","i","d","a","y">>,
     <<"S","a","t","u","r","d","a","y">>,
     <<"S","u","n","d","a","y">> >>

\* calendar.month_name, lowercased as _strptime compares it
Months ==
  << <<"j","a","n","u","a","r","y">>,
     <<"f","e","b","r","u","a","r","y">>,
     <<"m","a","r","c","h">>,
     <<"a","p","r","i","l">>,
     <<"m","a","y">>,
     <<"j","u","n","e">>,
     <<"j","u","l","y">>,
     <<"a","u","g","u","s","t">>,
     <<"s","e","p","t","e","m","b","e","r">>,
     <<"o","c","t","o","b","e","r">>,
     <<"n","o","v","e","m","b","e","r">>,
     <<"d","e","c","e","m","b","e","r">> >>

\* None, which no str equals
None == <<"None">>

\* `not x` for x a str or None
falsy(x) == x = None \/ x = <<>>

\* `a or b`
or_else(a, b) == IF falsy(a) THEN b ELSE a

NoMatch == [found |-> FALSE, text |-> <<>>]

\* re.search takes the leftmost match: of the indices a match starts at
\* (none for no match), the first
leftmost(at) == IF at = {} THEN 0 ELSE CHOOSE k \in at : \A m \in at : k <= m

\* \d{1,2} followed by the character c, at index i: the number of digits
digits12_then(s, i, c) ==
  IF char_at(s, i) \in DigitSet /\ char_at(s, i + 1) \in DigitSet
       /\ char_at(s, i + 2) = c THEN 2
  ELSE IF char_at(s, i) \in DigitSet /\ char_at(s, i + 1) = c THEN 1
  ELSE 0

\* main, line 92:
\* (Monday|...|Sunday),\s+[A-Za-z]+\s+\d{1,2},\s+\d{4} at index i: the index
\* after the match, 0 for no match
date_end_at(s, i) ==
  Bind(leftmost({k \in 1..Len(Weekdays) : starts_at(s, i, Weekdays[k])}),
       LAMBDA w :
    IF w = 0 THEN 0
    ELSE
      Bind(i + Len(Weekdays[w]), LAMBDA j1 :
      Bind(span(s, j1 + 1, Whitespace), LAMBDA j2 :
      Bind(span(s, j2, LetterSet), LAMBDA j3 :
      Bind(span(s, j3, Whitespace), LAMBDA j4 :
      Bind(digits12_then(s, j4, ","), LAMBDA n :
      Bind(span(s, j4 + n + 1, Whitespace), LAMBDA j6 :
        IF /\ char_at(s, j1) = ","
           /\ j2 > j1 + 1
           /\ j3 > j2
           /\ j4 > j3
           /\ n > 0
           /\ j6 > j4 + n + 1
           /\ span(s, j6, DigitSet) >= j6 + 4
          THEN j6 + 4
          ELSE 0)))))))

search_date(s) ==
  Bind(s, LAMBDA t :
    Bind(leftmost({k \in 1..Len(t) : date_end_at(t, k) > 0}), LAMBDA i :
      IF i = 0 THEN NoMatch
      ELSE [found |-> TRUE, text |-> SubSeq(t, i, date_end_at(t, i) - 1)]))

\* \d{1,2}:\d{2}\s*[AP]M at index i, ignoring case
time_end_at(s, i) ==
  Bind(digits12_then(s, i, ":"), LAMBDA n :
    Bind(span(s, i + n + 3, Whitespace), LAMBDA j2 :
      IF /\ n > 0
         /\ char_at(s, i + n + 1) \in DigitSet
         /\ char_at(s, i + n + 2) \in DigitSet
         /\ upper_char(char_at(s, j2)) \in {"A", "P"}
         /\ upper_char(char_at(s, j2 + 1)) = "M"
        THEN j2 + 2
        ELSE 0))

\* main, line 103 and parse_time_range, line 32:
\* \d{1,2}:\d{2}\s*[AP]M\s+\d{1,2}:\d{2}\s*[AP]M at index i, ignoring case
time_range_end_at(s, i) ==
  Bind(time_end_at(s, i), LAMBDA e1 :
    IF e1 = 0 THEN 0
    ELSE Bind(span(s, e1, Whitespace), LAMBDA j :
           IF j > e1 THEN time_end_at(s, j) ELSE 0))

search_time_range(s) ==
  Bind(s, LAMBDA t :
    Bind(leftmost({k \in 1..Len(t) : time_range_end_at(t, k) > 0}), LAMBDA i :
      IF i = 0 THEN NoMatch
      ELSE [found |-> TRUE,
            text |-> SubSeq(t, i, time_range_end_at(t, i) - 1)]))

\* main, line 113: \$\d+[^\\n]* at index i.  The class [^\\n] of the raw
\* pattern excludes the backslash and the letter n, not the newline.
price_end_at(s, i) ==
  IF char_at(s, i) = "$" /\ char_at(s, i + 1) \in DigitSet
    THEN span_not(s, span(s, i + 1, DigitSet), {"\\", "n"})
    ELSE 0

search_price(s) ==
  Bind(s, LAMBDA t :
    Bind(leftmost({k \in 1..Len(t) : price_end_at(t, k) > 0}), LAMBDA i :
      IF i = 0 THEN NoMatch
      ELSE [found |-> TRUE, text |-> SubSeq(t, i, price_end_at(t, i) - 1)]))

is_leap(y) == (y % 4 = 0 /\ y % 100 # 0) \/ y % 400 = 0

days_in_month(y, m) ==
  IF m = 2 THEN (IF is_leap(y) THEN 29 ELSE 28)
  ELSE IF m \in {4, 6, 9, 11} THEN 30 ELSE 31

\* %d of _strptime: 3[0-1]|[1-2]\d|0[1-9]|[1-9], followed by a comma
day_digits(s, i) ==
  Bind(char_at(s, i), LAMBDA a :
    Bind(char_at(s, i + 1), LAMBDA b :
      IF /\ char_at(s, i + 2) = ","
         /\ \/ a = "3" /\ b \in {"0", "1"}
            \/ a \in {"1", "2"} /\ b \in DigitSet
            \/ a = "0" /\ b \in DigitSet \ {"0"}
        THEN 2
      ELSE IF a \in DigitSet \ {"0"} /\ b = "," THEN 1
      ELSE 0))

ValueError == [ok |-> FALSE, value |-> <<>>]

\* the rest of the format once the weekday w and the month m are matched:
\* \s+%d,\s+%Y from index j3 of t to its end
parse_day_year(t, m, j3) ==
  Bind(span(t, j3, Whitespace), LAMBDA j4 :
  Bind(day_digits(t, j4), LAMBDA n :
  Bind(span(t, j4 + n + 1, Whitespace), LAMBDA j6 :
    IF /\ j4 > j3
       /\ n > 0
       /\ j6 > j4 + n + 1
       /\ j6 + 3 = Len(t)
       /\ \A k \in j6..(j6 + 3) : t[k] \in DigitSet
      THEN Bind(SubSeq(t, j6, j6 + 3), LAMBDA y :
           Bind(int_of(SubSeq(t, j4, j4 + n - 1)), LAMBDA d :
             IF int_of(y) >= 1 /\ d <= days_in_month(int_of(y), m)
               THEN [ok |-> TRUE,
                     value |-> y \o <<"-">> \o two_digits(m) \o <<"-">>
                                 \o two_digits(d)]
               ELSE ValueError))
      ELSE ValueError)))

\* parse_long_date (parse_date in scripts/): strptime of the stripped text
\* with "%A, %B %d, %Y", then strftime("%Y-%m-%d").  strptime matches names
\* ignoring case, takes any run of whitespace for a blank of the format,
\* must consume the whole text, and raises ValueError otherwise or when the
\* day is not one of the month or the year is 0.  (How strftime pads a year
\* below 1000 depends on the platform; no page of the model has one.)
parse_long_date(s) ==
  Bind(strip(s), LAMBDA t :
  Bind(lower(t), LAMBDA lt :
  Bind(leftmost({k \in 1..Len(Weekdays) : starts_at(lt, 1, lower(Weekdays[k]))}),
       LAMBDA w :
    IF w = 0 THEN ValueError
    ELSE
      Bind(1 + Len(Weekdays[w]), LAMBDA j1 :
      Bind(span(t, j1 + 1, Whitespace), LAMBDA j2 :
      Bind(leftmost({k \in 1..Len(Months) : starts_at(lt, j2, Months[k])}),
           LAMBDA m :
        IF char_at(t, j1) # "," \/ j2 = j1 + 1 \/ m = 0 THEN ValueError
        ELSE parse_day_year(t, m, j2 + Len(Months[m]))))))))

\* parse_time_range: the two groups of the first match in the collapsed
\* text, upper-cased, blanks removed
parse_time_range(text) ==
  Bind(collapse(text), LAMBDA t :
  Bind(leftmost({k \in 1..Len(t) : time_range_end_at(t, k) > 0}), LAMBDA i :
    IF i = 0 THEN << <<>>, <<>> >>
    ELSE Bind(time_end_at(t, i), LAMBDA e1 :
         Bind(span(t, e1, Whitespace), LAMBDA j :
           << remove_spaces(upper(SubSeq(t, i, e1 - 1))),
              remove_spaces(upper(SubSeq(t, j, time_end_at(t, j) - 1))) >>))))

abs_url(href0) ==
  Bind(strip(href0), LAMBDA href :
    IF href = <<>> THEN <<>>
    ELSE IF startswith(href, HTTP) THEN href
    ELSE IF startswith(href, <<"/">>) THEN SITE \o href
    ELSE SITE \o <<"/">> \o href)

\* classify_event with its two rules in the other order
classify_event_dd_first(title, block_text) ==
  Bind(lower(title), LAMBDA t :
  Bind(lower(block_text), LAMBDA b :
    IF \/ contains(MADRONE_LC, t)
       \/ contains(MADRONE_LC, b)
       \/ (contains(DRINK, t) /\ contains(DRAW, t))
       \/ (contains(DRINK, b) /\ contains(DRAW, b))
      THEN <<DRINK_AND_DRAW, MADRONE_VENUE, DEFAULT_PRICE>>
    ELSE IF \E k \in 1..Len(figure_terms) :
              contains(figure_terms[k], t) \/ contains(figure_terms[k], b)
      THEN <<FIGURE_DRAWING, FIGURE_VENUE, <<>>>>
    ELSE <<None, None, None>>))

\* returns <<category, venue_override, price_override>>
classify_event(title, block_text) ==
  Bind(lower(title), LAMBDA t :
  Bind(lower(block_text), LAMBDA b :
    IF \E k \in 1..Len(figure_terms) :
         contains(figure_terms[k], t) \/ contains(figure_terms[k], b)
      THEN <<FIGURE_DRAWING, FIGURE_VENUE, <<>>>>
    ELSE IF \/ contains(MADRONE_LC, t)
            \/ contains(MADRONE_LC, b)
            \/ (contains(DRINK, t) /\ contains(DRAW, t))
            \/ (contains(DRINK, b) /\ contains(DRAW, b))
      THEN <<DRINK_AND_DRAW, MADRONE_VENUE, DEFAULT_PRICE>>
    ELSE <<None, None, None>>))

\* scripts/fetch_sketchboard_drinkdraw.py
is_drink_draw_candidate(title, venue_line) ==
  \E t \in {lower(title)}, v \in {lower(venue_line)} :
    \/ contains(MADRONE_LC, t)
    \/ contains(MADRONE_LC, v)
    \/ (contains(DRINK, t) /\ contains(DRAW, t))

(***************************************************************************)
(* The two files and the Merger processes                                  *)
(***************************************************************************)

VARIABLES
  events_csv,    \* Path("events.csv"): the dataset file
  auto_csv,      \* Path("sketchboard_drinkdraw.csv"): the extraction result
  pc,            \* pc[p]: where Merger process p stands in main
  base_rows,     \* main's local base_rows, per process
  auto_rows,     \* main's local auto_rows, per process
  uniq,          \* main's local uniq (after the sort), per process
  wpos,          \* the write position of p's handle on events.csv, in lines
  runs_left,     \* how many more times the scheduler starts process p
  prev_csv,      \* history: the content of events.csv when p read it
  rerun,         \* history: p's run follows a completed run, same auto file
  fresh_auto,    \* history: the auto file changed since the last completed run
  init_csv,      \* history: events.csv before the first of two racing runs
  overlapped     \* history: a run started while another was under way

VARIABLES
  variant,       \* which script runs: "main" (fetch_sketchboard_drinkdraw.py)
                 \* or "scripts" (scripts/fetch_sketchboard_drinkdraw.py)
  site,          \* the anchors of the page the schedule URL serves
  html,          \* main's soup.select(...) once the page is fetched
  epc,           \* where the extraction stands in main
  idx,           \* the anchor the for loop is at
  cur,           \* the loop's locals after an iteration, and the way it ended
  events,        \* main's local events
  e_uniq,        \* main's local uniq, sorted
  stdout,        \* the lines written to sys.stdout
  exit_code      \* the exit status of the process, -1 while it runs

evars ==
  <<variant, site, html, epc, idx, cur, events, e_uniq, stdout, exit_code>>

VARIABLES
  c_title,       \* classify_event's argument title
  c_block,       \* classify_event's argument block_text
  c_result,      \* what classify_event returned
  c_kept         \* whether main went on to construct a record

cvars == <<c_title, c_block, c_result, c_kept>>

mvars ==
  << events_csv, auto_csv, pc, base_rows, auto_rows, uniq, wpos, runs_left,
     prev_csv, rerun, fresh_auto, init_csv, overlapped >>

Procs == {1, 2}

\* a line of a file as found on disk before a run, cells by position
Line(date, venue, title, start_time, price_text, notes) ==
  << date, venue, title, <<>>, <<>>, start_time, <<>>, price_text, <<>>,
     <<>>, <<>>, notes >>

D1 == <<"2","0","2","6","-","0","2","-","1","7">>
D2 == <<"2","0","2","6","-","0","2","-","2","4">>
T630 == <<"6",":","3","0","P","M">>
T1000 == <<"1","0",":","0","0","A","M">>

\* Lines the dataset may hold before a run: two hand-entered rows with the
\* same key in different spelling, a stale auto-imported row with no start
\* time, and a hand-entered row of an earlier date.
BaseLines ==
  { Line(D2, <<"B","a","r">>, <<"D","r","a","w">>, T630, <<>>, <<>>),
    Line(D2, <<"b","a","r"," ">>, <<" ","D","R","A","W">>, T630,
         <<"$","5">>, <<>>),
    Line(D2, <<"B","a","r">>, <<"D","r","a","w">>, <<>>, <<"$","1","5">>,
         MARKER \o <<" ","v","2">>),
    Line(D1, <<"C","a","f","e">>, <<"S","i","p">>, T1000, <<>>, <<>>) }

\* Lines the extraction result may hold: a row whose key a hand-entered row
\* has, the stale row again with another price, a new event at another
\* venue, and a row of the stale row's key that carries no marker.
AutoLines ==
  { Line(D2, <<"B","a","r">>, <<"d","r","a","w">>, T630, <<"$","1","5">>,
         MARKER),
    Line(D2, <<"B","a","r">>, <<"D","r","a","w">>, <<>>, <<"$","2","0">>,
         MARKER),
    Line(D2, <<"A","r","t">>, <<"S","i","p">>, T630, <<>>, MARKER),
    Line(D2, <<"B","a","r">>, <<"D","r","a","w">>, <<>>, <<>>, <<>>) }

MaxBase == 2
MaxAuto == 2
MaxRuns == 2

SeqsUpTo(S, n) == UNION {[1..m -> S] : m \in 0..n}

\* a well-formed CSV file with the 12-column header
FileOf(lines) == [exists |-> TRUE, lines |-> <<HeaderLine>> \o lines]

BaseFiles == {NoFile} \cup {FileOf(ls) : ls \in SeqsUpTo(BaseLines, MaxBase)}
AutoFiles == {NoFile} \cup {FileOf(ls) : ls \in SeqsUpTo(AutoLines, MaxAuto)}

NulLine == << <<"NUL">> >>

\* f.write of one line at position pos of a file opened with "w": the line
\* replaces what is there, and a position past the end leaves a hole of
\* zero bytes before it
write_at(file, pos, line) ==
  LET n == Len(file.lines)
      padded == IF pos <= n THEN file.lines
                ELSE file.lines \o [i \in 1..(pos - n) |-> NulLine]
  IN  [exists |-> TRUE,
       lines  |-> [i \in 1..(IF pos < n THEN n ELSE pos + 1) |->
                     IF i = pos + 1 THEN line ELSE padded[i]]]

NoLocals ==
  /\ base_rows = [p \in Procs |-> <<>>]
  /\ auto_rows = [p \in Procs |-> <<>>]
  /\ uniq = [p \in Procs |-> <<>>]
  /\ wpos = [p \in Procs |-> 0]
  /\ prev_csv = [p \in Procs |-> NoFile]
  /\ rerun = [p \in Procs |-> FALSE]

InitMerger(budget) ==
  /\ events_csv \in BaseFiles
  /\ auto_csv \in AutoFiles
  /\ pc = [p \in Procs |-> "start"]
  /\ NoLocals
  /\ runs_left = budget
  /\ fresh_auto = TRUE
  /\ overlapped = FALSE

Running(p) == pc[p] \in {"read_auto", "open", "header", "rows"}

\* main, line 37: base_rows = read_csv(base)
ReadBase(p) ==
  /\ pc[p] \in {"start", "done"}
  /\ runs_left[p] > 0
  /\ runs_left' = [runs_left EXCEPT ![p] = @ - 1]
  /\ base_rows' = [base_rows EXCEPT ![p] = read_csv(events_csv)]
  /\ prev_csv' = [prev_csv EXCEPT ![p] = events_csv]
  /\ rerun' = [rerun EXCEPT ![p] = ~fresh_auto]
  /\ overlapped' = (overlapped \/ \E q \in Procs \ {p} : Running(q))
  /\ pc' = [pc EXCEPT ![p] = "read_auto"]
  /\ UNCHANGED <<evars, cvars, events_csv, auto_csv, auto_rows, uniq, wpos, fresh_auto,
                 init_csv>>

\* main, lines 38-57: auto_rows = read_csv(auto), then the in-memory
\* computation of cleaned, merged, uniq and its sort
ReadAuto(p) ==
  /\ pc[p] = "read_auto"
  /\ auto_rows' = [auto_rows EXCEPT ![p] = read_csv(auto_csv)]
  /\ uniq' = [uniq EXCEPT ![p] = merge_rows(base_rows[p], read_csv(auto_csv))]
  /\ pc' = [pc EXCEPT ![p] = "open"]
  /\ UNCHANGED <<evars, cvars, events_csv, auto_csv, base_rows, wpos, runs_left, prev_csv,
                 rerun, fresh_auto, init_csv, overlapped>>

\* an open that does not truncate the file (mode "r+")
OpenWrite_keep(p) ==
  /\ pc[p] = "open"
  /\ events_csv' = [exists |-> TRUE, lines |-> events_csv.lines]
  /\ wpos' = [wpos EXCEPT ![p] = 0]
  /\ pc' = [pc EXCEPT ![p] = "header"]
  /\ UNCHANGED <<evars, cvars, auto_csv, base_rows, auto_rows, uniq, runs_left, prev_csv,
                 rerun, fresh_auto, init_csv, overlapped>>

\* write_csv, line 19: p.open("w") creates or truncates the file
OpenWrite(p) ==
  /\ pc[p] = "open"
  /\ events_csv' = EmptyFile
  /\ wpos' = [wpos EXCEPT ![p] = 0]
  /\ pc' = [pc EXCEPT ![p] = "header"]
  /\ UNCHANGED <<evars, cvars, auto_csv, base_rows, auto_rows, uniq, runs_left, prev_csv,
                 rerun, fresh_auto, init_csv, overlapped>>

\* write_csv, line 21: w.writeheader()
WriteHeader(p) ==
  /\ pc[p] = "header"
  /\ events_csv' = write_at(events_csv, wpos[p], HeaderLine)
  /\ wpos' = [wpos EXCEPT ![p] = @ + 1]
  /\ pc' = [pc EXCEPT ![p] = "rows"]
  /\ UNCHANGED <<evars, cvars, auto_csv, base_rows, auto_rows, uniq, runs_left, prev_csv,
                 rerun, fresh_auto, init_csv, overlapped>>

\* write_csv, lines 22-23: one w.writerow(...); wpos[p] - 1 rows are written
WriteRow(p) ==
  /\ pc[p] = "rows"
  /\ wpos[p] - 1 < Len(uniq[p])
  /\ events_csv' = write_at(events_csv, wpos[p], RowLine(uniq[p][wpos[p]]))
  /\ wpos' = [wpos EXCEPT ![p] = @ + 1]
  /\ UNCHANGED <<evars, cvars, auto_csv, pc, base_rows, auto_rows, uniq, runs_left,
                 prev_csv, rerun, fresh_auto, init_csv, overlapped>>

\* write_csv, line 19: the end of the with block closes the file, and
\* write_csv returns to main
CloseFile(p) ==
  /\ pc[p] = "rows"
  /\ wpos[p] - 1 = Len(uniq[p])
  /\ pc' = [pc EXCEPT ![p] = "written"]
  /\ UNCHANGED <<evars, cvars, events_csv, auto_csv, base_rows, auto_rows, uniq, wpos,
                 runs_left, prev_csv, rerun, fresh_auto, init_csv, overlapped>>

\* main returns (line 59) and the process exits: its locals are gone
Exit(p) ==
  /\ pc[p] = "written"
  /\ pc' = [pc EXCEPT ![p] = "done"]
  /\ base_rows' = [base_rows EXCEPT ![p] = <<>>]
  /\ auto_rows' = [auto_rows EXCEPT ![p] = <<>>]
  /\ uniq' = [uniq EXCEPT ![p] = <<>>]
  /\ wpos' = [wpos EXCEPT ![p] = 0]
  /\ prev_csv' = [prev_csv EXCEPT ![p] = NoFile]
  /\ rerun' = [rerun EXCEPT ![p] = FALSE]
  /\ fresh_auto' = FALSE
  /\ UNCHANGED <<evars, cvars, events_csv, auto_csv, runs_left, init_csv, overlapped>>

\* Between two Merger runs the extraction pipeline replaces the auto file
\* (its standard output is redirected to sketchboard_drinkdraw.csv).
AutoUpdate ==
  /\ \A p \in Procs : pc[p] \in {"start", "done"}
  /\ \E p \in Procs : runs_left[p] > 0
  /\ \E f \in AutoFiles \ {auto_csv} : auto_csv' = f
  /\ fresh_auto' = TRUE
  /\ UNCHANGED <<evars, cvars, events_csv, pc, base_rows, auto_rows, uniq, wpos, runs_left,
                 prev_csv, rerun, init_csv, overlapped>>

\* read_csv, lines 14-16: open() or the read raises (the file exists but
\* cannot be read); nothing catches it and the run ends non-zero
FailReadBase(p) ==
  /\ pc[p] \in {"start", "done"}
  /\ runs_left[p] > 0
  /\ events_csv.exists
  /\ runs_left' = [runs_left EXCEPT ![p] = @ - 1]
  /\ prev_csv' = [prev_csv EXCEPT ![p] = events_csv]
  /\ pc' = [pc EXCEPT ![p] = "aborted"]
  /\ UNCHANGED <<evars, cvars, events_csv, auto_csv, base_rows, auto_rows, uniq, wpos,
                 rerun, fresh_auto, init_csv, overlapped>>

FailReadAuto(p) ==
  /\ pc[p] = "read_auto"
  /\ auto_csv.exists
  /\ pc' = [pc EXCEPT ![p] = "aborted"]
  /\ UNCHANGED <<evars, cvars, events_csv, auto_csv, base_rows, auto_rows, uniq, wpos,
                 runs_left, prev_csv, rerun, fresh_auto, init_csv, overlapped>>

\* write_csv, line 19: p.open("w") raises; the file is as it was
FailOpen(p) ==
  /\ pc[p] = "open"
  /\ pc' = [pc EXCEPT ![p] = "aborted"]
  /\ UNCHANGED <<evars, cvars, events_csv, auto_csv, base_rows, auto_rows, uniq, wpos,
                 runs_left, prev_csv, rerun, fresh_auto, init_csv, overlapped>>

\* write_csv, lines 21-23: a write (or the flush on leaving the with block)
\* raises; the file keeps what was written since the truncation
FailWrite(p) ==
  /\ pc[p] \in {"header", "rows"}
  /\ pc' = [pc EXCEPT ![p] = "aborted"]
  /\ UNCHANGED <<evars, cvars, events_csv, auto_csv, base_rows, auto_rows, uniq, wpos,
                 runs_left, prev_csv, rerun, fresh_auto, init_csv, overlapped>>

(***************************************************************************)
(* The extraction entry point, in its two variants                         *)
(***************************************************************************)

\* The anchors a schedule page may hold: the text a.get_text(" ") gives,
\* the href attribute and the text of the parent, container.get_text("\n",
\* strip=True), which includes the anchor's own text.
AnchorSet ==
  { \* the fixture of the specification: a Drink & Draw night by its title
    [text  |-> <<"M","a","d","r","o","n","e"," ","D","r","i","n","k",
                 " ","&"," ","D","r","a","w">>,
     href  |-> <<"/","e","v","e","n","t","s","/","m","a","d","r","o",
                 "n","e","-","j","a","n">>,
     block |-> <<"M","a","d","r","o","n","e"," ","D","r","i","n","k",
                 " ","&"," ","D","r","a","w","\n","T","u","e","s","d",
                 "a","y",","," ","F","e","b","r","u","a","r","y"," ",
                 "1","7",","," ","2","0","2","6","\n","6",":","3","0",
                 " ","P","M"," ","8",":","3","0"," ","P","M">>],
    \* the same title on the same day, at a later hour
    [text  |-> <<"M","a","d","r","o","n","e"," ","D","r","i","n","k",
                 " ","&"," ","D","r","a","w">>,
     href  |-> <<"/","e","v","e","n","t","s","/","m","a","d","r","o",
                 "n","e","-","l","a","t","e">>,
     block |-> <<"M","a","d","r","o","n","e"," ","D","r","i","n","k",
                 " ","&"," ","D","r","a","w","\n","T","u","e","s","d",
                 "a","y",","," ","F","e","b","r","u","a","r","y"," ",
                 "1","7",","," ","2","0","2","6","\n","9",":","0","0",
                 " ","P","M"," ","1","1",":","0","0"," ","P","M">>],
    \* a Drink & Draw night by its venue line, with a price
    [text  |-> <<"S","k","e","t","c","h"," "," ","N","i","g","h","t">>,
     href  |-> <<"h","t","t","p","s",":","/","/","w","w","w",".","s",
                 "k","e","t","c","h","b","o","a","r","d",".","c","o",
                 "/","e","/","1">>,
     block |-> <<"S","k","e","t","c","h"," ","N","i","g","h","t","\n",
                 "T","u","e","s","d","a","y",","," ","F","e","b","r",
                 "u","a","r","y"," ","1","7",","," ","2","0","2","6",
                 "\n","6",":","3","0"," ","P","M"," ","8",":","3","0",
                 " ","P","M","\n","M","a","d","r","o","n","e"," ","A",
                 "r","t"," ","B","a","r","\n","$","1","0">>],
    \* the same title, day and hour: a figure session
    [text  |-> <<"S","k","e","t","c","h"," ","N","i","g","h","t">>,
     href  |-> <<"e","/","2">>,
     block |-> <<"S","k","e","t","c","h"," ","N","i","g","h","t","\n",
                 "T","u","e","s","d","a","y",","," ","F","e","b","r",
                 "u","a","r","y"," ","1","7",","," ","2","0","2","6",
                 "\n","6",":","3","0"," ","p","m"," "," ","8",":","3",
                 "0"," ","p","m","\n","G","e","s","t","u","r","e"," ",
                 "p","o","s","e","s">>],
    \* a date the pattern finds and strptime refuses
    [text  |-> <<"M","a","d","r","o","n","e"," ","S","p","e","c","i",
                 "a","l">>,
     href  |-> <<"/","e","/","3">>,
     block |-> <<"M","a","d","r","o","n","e"," ","S","p","e","c","i",
                 "a","l","\n","M","o","n","d","a","y",","," ","F","o",
                 "o"," ","3","1",","," ","2","0","2","6">>],
    \* no keyword of either category
    [text  |-> <<"P","o","t","t","e","r","y"," ","C","l","a","s","s">>,
     href  |-> <<"/","e","/","4">>,
     block |-> <<"P","o","t","t","e","r","y"," ","C","l","a","s","s",
                 "\n","F","r","i","d","a","y",","," ","M","a","r","c",
                 "h"," ","6",","," ","2","0","2","6","\n","n","o"," ",
                 "k","e","y","w","o","r","d","s"," ","h","e","r","e">>],
    \* a navigation link
    [text  |-> <<"V","i","e","w"," ","E","v","e","n","t">>,
     href  |-> <<"/","e","v","e","n","t","s","/","m","a","d","r","o",
                 "n","e","-","j","a","n">>,
     block |-> <<"M","a","d","r","o","n","e"," ","D","r","i","n","k",
                 " ","&"," ","D","r","a","w","\n","T","u","e","s","d",
                 "a","y",","," ","F","e","b","r","u","a","r","y"," ",
                 "1","7",","," ","2","0","2","6","\n","V","i","e","w",
                 " ","E","v","e","n","t">>],
    \* a link that leaves the site
    [text  |-> <<"L","i","f","e"," ","D","r","a","w","i","n","g">>,
     href  |-> <<"h","t","t","p","s",":","/","/","e","x","a","m","p",
                 "l","e",".","c","o","m","/","x">>,
     block |-> <<"L","i","f","e"," ","D","r","a","w","i","n","g","\n",
                 "T","u","e","s","d","a","y",","," ","F","e","b","r",
                 "u","a","r","y"," ","1","7",","," ","2","0","2","6">>],
    \* a figure term and Madrone together, no hours
    [text  |-> <<"L","I","F","E"," ","D","R","A","W","I","N","G"," ",
                 "a","t"," ","M","a","d","r","o","n","e">>,
     href  |-> <<"/","e","/","5">>,
     block |-> <<"L","I","F","E"," ","D","R","A","W","I","N","G"," ",
                 "a","t"," ","M","a","d","r","o","n","e","\n","F","r",
                 "i","d","a","y",","," ","M","a","r","c","h"," ","6",
                 ","," ","2","0","2","6">>],
    \* no date in the block
    [text  |-> <<"D","r","i","n","k"," ","a","n","d"," ","D","r","a",
                 "w">>,
     href  |-> <<"/","e","/","6">>,
     block |-> <<"D","r","i","n","k"," ","a","n","d"," ","D","r","a",
                 "w","\n","e","v","e","r","y"," ","w","e","e","k">>] }

MaxAnchors == 2

Pages == SeqsUpTo(AnchorSet, MaxAnchors)

\* the dict main appends to events (lines 117-130)
Event(date, venue, title, category, start_time, end_time, price_text, event_url) ==
  [ date        |-> date,
    venue       |-> venue,
    title       |-> title,
    category    |-> category,
    event_type  |-> <<>>,
    start_time  |-> start_time,
    end_time    |-> end_time,
    price_text  |-> price_text,
    is_museum   |-> NO,
    museum_name |-> <<>>,
    event_url   |-> event_url,
    notes       |-> MARKER ]

NoEvent == Event(<<>>, <<>>, <<>>, <<>>, <<>>, <<>>, <<>>, <<>>)

Iteration(outcome, title, block_text, category, event) ==
  [ outcome    |-> outcome,
    title      |-> title,
    block_text |-> block_text,
    category   |-> category,
    event      |-> event ]

NoIteration == Iteration("none", <<>>, <<>>, <<>>, NoEvent)

\* main, lines 102-105: the time range if the block shows one
block_times(block_text) ==
  Bind(search_time_range(block_text), LAMBDA tm :
    IF tm.found THEN parse_time_range(tm.text) ELSE << <<>>, <<>> >>)

\* main, lines 112-115
block_price(block_text) ==
  Bind(search_price(block_text), LAMBDA pm :
    IF pm.found THEN strip(pm.text) ELSE <<>>)

\* fetch_sketchboard_drinkdraw.py, main, lines 77-130: one iteration of the
\* loop over soup.select("a[href]").  The outcome names how it ended:
\* "skip" (a continue of lines 80-94), "date_error" (the except of line 98),
\* "no_category" (line 109) or "append" (line 117).  find_parent() of an
\* anchor of a parsed page is never None.
loop_body_main(a) ==
  Bind(strip(collapse(a.text)), LAMBDA title :
  Bind(abs_url(a.href), LAMBDA href :
  Bind(a.block, LAMBDA block_text :
    IF title = <<>> \/ contains(VIEW_EVENT, title)
      THEN Iteration("skip", title, <<>>, <<>>, NoEvent)
    ELSE IF ~contains(SKETCHBOARD_CO, href)
      THEN Iteration("skip", title, <<>>, <<>>, NoEvent)
    ELSE
      Bind(search_date(block_text), LAMBDA dm :
        IF ~dm.found
          THEN Iteration("skip", title, block_text, <<>>, NoEvent)
        ELSE
          Bind(parse_long_date(dm.text), LAMBDA date :
            IF ~date.ok
              THEN Iteration("date_error", title, block_text, <<>>, NoEvent)
            ELSE
              Bind(block_times(block_text), LAMBDA times :
              Bind(classify_event(title, block_text), LAMBDA cls :
                IF falsy(cls[1])
                  THEN Iteration("no_category", title, block_text, cls[1],
                                 NoEvent)
                ELSE
                  Bind(block_price(block_text), LAMBDA price :
                    Iteration("append", title, block_text, cls[1],
                      Event(date.value, or_else(cls[2], SKETCHBOARD), title,
                            cls[1], times[1], times[2],
                            or_else(price, or_else(cls[3], <<>>)),
                            href))))))))))

\* scripts/fetch_sketchboard_drinkdraw.py, main, lines 103-110: the first
\* line of the block that holds "Madrone"
venue_line_of(block_text) ==
  Bind(split_lines(block_text), LAMBDA lines :
    Bind(leftmost({i \in 1..Len(lines) : contains(MADRONE_CAP, lines[i])}),
         LAMBDA i :
      IF i = 0 THEN <<>> ELSE lines[i]))

\* scripts/fetch_sketchboard_drinkdraw.py, main, lines 60-137: one iteration
\* of the loop over soup.select("a")
loop_body_scripts(a) ==
  Bind(strip(collapse(a.text)), LAMBDA text :
  Bind(IF startswith(a.href, <<"/">>) THEN SITE \o a.href ELSE a.href,
       LAMBDA href :
  Bind(a.block, LAMBDA block_text :
    IF text = <<>>
      THEN Iteration("skip", text, <<>>, <<>>, NoEvent)
    ELSE IF startswith(a.href, HTTP) /\ ~contains(SKETCHBOARD_CO, a.href)
      THEN Iteration("skip", text, <<>>, <<>>, NoEvent)
    ELSE IF contains(VIEW_EVENT, text)
      THEN Iteration("skip", text, <<>>, <<>>, NoEvent)
    ELSE IF ~contains(SKETCHBOARD_CO, href)
      THEN Iteration("skip", text, <<>>, <<>>, NoEvent)
    ELSE
      Bind(search_date(block_text), LAMBDA dm :
        IF ~dm.found
          THEN Iteration("skip", text, block_text, <<>>, NoEvent)
        ELSE
          Bind(parse_long_date(dm.text), LAMBDA date :
            IF ~date.ok
              THEN Iteration("date_error", text, block_text, <<>>, NoEvent)
            ELSE
              Bind(block_times(block_text), LAMBDA times :
                IF ~is_drink_draw_candidate(text, venue_line_of(block_text))
                  THEN Iteration("no_category", text, block_text, None,
                                 NoEvent)
                ELSE
                  Bind(block_price(block_text), LAMBDA price :
                    Iteration("append", text, block_text, DRINK_AND_DRAW,
                      Event(date.value, MADRONE_VENUE, text, DRINK_AND_DRAW,
                            times[1], times[2],
                            or_else(price, DEFAULT_PRICE), href)))))))))

loop_body(a) ==
  IF variant = "main" THEN loop_body_main(a) ELSE loop_body_scripts(a)

\* fetch_sketchboard_drinkdraw.py, main, line 136
event_key_main(ev) ==
  <<ev.date, strip(lower(ev.title)), strip(ev.start_time)>>

\* scripts/fetch_sketchboard_drinkdraw.py, main, line 143
event_key_scripts(ev) == <<ev.date, strip(lower(ev.title))>>

event_key(ev) ==
  IF variant = "main" THEN event_key_main(ev) ELSE event_key_scripts(ev)

\* main, lines 133-140
RECURSIVE event_dedupe_loop(_, _, _, _)
event_dedupe_loop(evs, i, seen, kept) ==
  IF i > Len(evs) THEN kept
  ELSE LET k == event_key(evs[i])
       IN  IF k \in seen
             THEN event_dedupe_loop(evs, i + 1, seen, kept)
             ELSE event_dedupe_loop(evs, i + 1, seen \cup {k},
                                    Append(kept, evs[i]))

\* main, line 142: the sort key
event_sort_key(x) == <<x.date, x.start_time, x.title>>

RECURSIVE insert_event(_, _)
insert_event(sorted, ev) ==
  IF sorted = <<>> THEN <<ev>>
  ELSE IF tuple_lt(event_sort_key(ev), event_sort_key(Head(sorted)))
         THEN <<ev>> \o sorted
         ELSE <<Head(sorted)>> \o insert_event(Tail(sorted), ev)

RECURSIVE sort_events(_)
sort_events(evs) ==
  IF evs = <<>> THEN <<>>
  ELSE insert_event(sort_events(SubSeq(evs, 1, Len(evs) - 1)), evs[Len(evs)])

InitExtract ==
  /\ variant \in {"main", "scripts"}
  /\ site \in Pages
  /\ html = <<>>
  /\ epc = "fetch"
  /\ idx = 0
  /\ cur = NoIteration
  /\ events = <<>>
  /\ e_uniq = <<>>
  /\ stdout = <<>>
  /\ exit_code = -1

\* main, lines 70-76: fetch_html returns the page, BeautifulSoup parses it
\* and select lists its anchors
FetchOk ==
  /\ epc = "fetch"
  /\ html' = site
  /\ idx' = 1
  /\ epc' = "loop"
  /\ UNCHANGED <<mvars, cvars, variant, site, cur, events, e_uniq, stdout,
                 exit_code>>

\* fetch_html, lines 20-22: urlopen raises (no connection, timeout, HTTP
\* error); main does not catch it, the interpreter prints the traceback to
\* stderr and exits with status 1
FetchFail ==
  /\ epc = "fetch"
  /\ epc' = "failed"
  /\ exit_code' = 1
  /\ UNCHANGED <<mvars, cvars, variant, site, html, idx, cur, events, e_uniq,
                 stdout>>

InLoop == epc = "loop" /\ idx <= Len(html)

\* an iteration that ends in one of the continue statements before the
\* date is parsed
AnchorSkip ==
  /\ InLoop
  /\ \E it \in {loop_body(html[idx])} :
       it.outcome = "skip" /\ cur' = it
  /\ idx' = idx + 1
  /\ UNCHANGED <<mvars, cvars, variant, site, html, epc, events, e_uniq,
                 stdout, exit_code>>

\* the loop without the try of lines 96-99: the ValueError ends the run
AnchorDateError_abort ==
  /\ InLoop
  /\ \E it \in {loop_body(html[idx])} :
       it.outcome = "date_error" /\ cur' = it
  /\ epc' = "failed"
  /\ exit_code' = 1
  /\ UNCHANGED <<mvars, cvars, variant, site, html, idx, events, e_uniq,
                 stdout>>

\* main, lines 96-99: parse_long_date raises, the except clause continues
AnchorDateError ==
  /\ InLoop
  /\ \E it \in {loop_body(html[idx])} :
       it.outcome = "date_error" /\ cur' = it
  /\ idx' = idx + 1
  /\ UNCHANGED <<mvars, cvars, variant, site, html, epc, events, e_uniq,
                 stdout, exit_code>>

\* main, lines 107-109: no category, the candidate is ignored
AnchorNoCategory ==
  /\ InLoop
  /\ \E it \in {loop_body(html[idx])} :
       it.outcome = "no_category" /\ cur' = it
  /\ idx' = idx + 1
  /\ UNCHANGED <<mvars, cvars, variant, site, html, epc, events, e_uniq,
                 stdout, exit_code>>

\* main, lines 117-130: events.append({...})
AnchorAppend ==
  /\ InLoop
  /\ \E it \in {loop_body(html[idx])} :
       /\ it.outcome = "append"
       /\ cur' = it
       /\ events' = Append(events, it.event)
  /\ idx' = idx + 1
  /\ UNCHANGED <<mvars, cvars, variant, site, html, epc, e_uniq, stdout,
                 exit_code>>

\* main, lines 132-142: the loop is over; de-duplicate and sort
DedupeSort ==
  /\ epc = "loop"
  /\ idx > Len(html)
  /\ e_uniq' = sort_events(event_dedupe_loop(events, 1, {}, <<>>))
  /\ epc' = "header"
  /\ UNCHANGED <<mvars, cvars, variant, site, html, idx, cur, events, stdout,
                 exit_code>>

\* main, lines 144-145: w.writeheader()
EmitHeader ==
  /\ epc = "header"
  /\ stdout' = Append(stdout, HeaderLine)
  /\ epc' = "rows"
  /\ UNCHANGED <<mvars, cvars, variant, site, html, idx, cur, events, e_uniq,
                 exit_code>>

\* main, lines 146-147: one w.writerow(ev)
EmitRow ==
  /\ epc = "rows"
  /\ Len(stdout) - 1 < Len(e_uniq)
  /\ stdout' = Append(stdout, RowLine(e_uniq[Len(stdout)]))
  /\ UNCHANGED <<mvars, cvars, variant, site, html, epc, idx, cur, events,
                 e_uniq, exit_code>>

\* main returns and the process exits with status 0
ExitOk ==
  /\ epc = "rows"
  /\ Len(stdout) - 1 = Len(e_uniq)
  /\ epc' = "done"
  /\ exit_code' = 0
  /\ UNCHANGED <<mvars, cvars, variant, site, html, idx, cur, events, e_uniq,
                 stdout>>

(***************************************************************************)
(* classify_event on its own                                               *)
(***************************************************************************)

\* titles and block texts classify_event is applied to
TitleSet ==
  { <<"L","i","f","e"," ","D","r","a","w","i","n","g"," ","S","e","s",
      "s","i","o","n">>,
    <<"D","r","i","n","k"," ","&"," ","D","r","a","w"," ","N","i","g",
      "h","t">>,
    <<"P","o","t","t","e","r","y"," ","C","l","a","s","s">>,
    <<"d","r","i","n","k">>,
    <<"M","A","D","R","O","N","E"," ","n","i","g","h","t">>,
    <<"O","p","e","n"," ","S","t","u","d","i","o"," ","(","F","i","g",
      "u","r","e",")">>,
    <<"d","r","a","w">>,
    <<"M","o","d","e","l"," "," ","S","e","s","s","i","o","n">> }

BlockSet ==
  { <<".",".",".">>,
    <<"n","o"," ","k","e","y","w","o","r","d","s"," ","h","e","r",
      "e">>,
    <<"d","r","a","w">>,
    <<"G","e","s","t","u","r","e"," ","p","o","s","e","s"," ","a","t",
      " ","M","a","d","r","o","n","e">>,
    <<"d","r","i","n","k"," ","a","n","d"," ","d","r","a","w">>,
    <<"M","a","d","r","o","n","e"," ","A","r","t"," ","B","a","r">>,
    <<"a"," ","F","I","G","U","R","E">>,
    <<"d","r","i","n","k">> }

\* main, lines 108-109: `if not category: continue`
constructs(category) == ~falsy(category)

Unclassified == << <<>>, <<>>, <<>> >>

InitClassify ==
  /\ c_title \in TitleSet
  /\ c_block \in BlockSet
  /\ c_result = Unclassified
  /\ c_kept = FALSE

\* main, lines 107-109
Classify ==
  /\ c_result = Unclassified
  /\ \E result \in {classify_event(c_title, c_block)} :
       /\ c_result' = result
       /\ c_kept' = constructs(result[1])
  /\ UNCHANGED <<mvars, evars, c_title, c_block>>

\* the parts of the system a specification leaves out stand still
MergerIdle ==
  /\ events_csv = NoFile
  /\ auto_csv = NoFile
  /\ pc = [p \in Procs |-> "start"]
  /\ NoLocals
  /\ runs_left = [p \in Procs |-> 0]
  /\ fresh_auto = TRUE
  /\ overlapped = FALSE
  /\ init_csv = NoFile

ExtractIdle ==
  /\ variant = "main"
  /\ site = <<>>
  /\ html = <<>>
  /\ epc = "idle"
  /\ idx = 0
  /\ cur = NoIteration
  /\ events = <<>>
  /\ e_uniq = <<>>
  /\ stdout = <<>>
  /\ exit_code = -1

ClassifyIdle ==
  /\ c_title = <<>>
  /\ c_block = <<>>
  /\ c_result = Unclassified
  /\ c_kept = FALSE

vars == <<mvars, evars, cvars>>

(***************************************************************************)
(* Spec: the scheduler runs the Merger MaxRuns times, one run after the    *)
(* other, and the extraction may replace the auto file between two runs.   *)
(***************************************************************************)

Init ==
  /\ InitMerger([p \in Procs |-> IF p = 1 THEN MaxRuns ELSE 0])
  /\ init_csv = NoFile
  /\ ExtractIdle
  /\ ClassifyIdle

Next ==
  \/ \E p \in Procs : ReadBase(p)
  \/ \E p \in Procs : ReadAuto(p)
  \/ \E p \in Procs : OpenWrite(p)
  \/ \E p \in Procs : WriteHeader(p)
  \/ \E p \in Procs : WriteRow(p)
  \/ \E p \in Procs : CloseFile(p)
  \/ \E p \in Procs : Exit(p)
  \/ AutoUpdate

Spec == Init /\ [][Next]_vars

(***************************************************************************)
(* Properties of a Merger run.  They are stated where write_csv has        *)
(* returned and main's locals are still there: pc[p] = "written".          *)
(***************************************************************************)

Range(f) == {f[i] : i \in DOMAIN f}

\* the data rows a file holds, cell for cell (nothing stripped)
Rows(file) ==
  IF ~file.exists \/ file.lines = <<>> THEN <<>>
  ELSE [i \in 1..(Len(file.lines) - 1) |->
          [h \in HeaderSet |-> dict_get(file.lines[1], file.lines[i + 1], h)]]

HasMarker(r) == contains(MARKER, r.notes)

\* the de-duplication key as the specification words it
SpecKey(r) == <<r.date, lower(r.venue), strip(lower(r.title)), r.start_time>>

\* the sort tuple as the specification words it
SpecSortTuple(r) == <<r.date, r.start_time, r.venue, r.title>>

\* C1: after a Merger run, every row of the rewritten dataset whose notes
\* contain the provenance marker is a row of the auto file read in that run
\* (so with an absent or empty auto file no row bears the marker).
C1_NoStaleAutoRow ==
  \A p \in Procs : pc[p] = "written" =>
    \A r \in Range(Rows(events_csv)) :
      HasMarker(r) => r \in Range(auto_rows[p])

\* a stale auto-imported row was in the base, the run dropped it, and a
\* marker-bearing row of the auto file came in
C1_Witness ==
  \E p \in Procs :
    /\ pc[p] = "written"
    /\ \E b \in Range(base_rows[p]) :
         HasMarker(b) /\ b \notin Range(Rows(events_csv))
    /\ \E r \in Range(Rows(events_csv)) : HasMarker(r)

\* C2, as claimed: every base row whose notes lack the marker is in the
\* rewritten dataset with all 12 field values unchanged.
C2_Original ==
  \A p \in Procs : pc[p] = "written" =>
    \A b \in Range(base_rows[p]) :
      ~HasMarker(b) => b \in Range(Rows(events_csv))

\* C2, amended: a base row whose notes lack the marker is in the rewritten
\* dataset with all 12 field values unchanged unless an earlier marker-free
\* base row has the same key; then the earlier row is the one kept, and the
\* dataset still holds a marker-free base row of that key.
C2_BaseRowsKept ==
  \A p \in Procs : pc[p] = "written" =>
    \A i \in 1..Len(base_rows[p]) :
      LET b == base_rows[p][i]
      IN  ~HasMarker(b) =>
            /\ (\A j \in 1..(i - 1) :
                  HasMarker(base_rows[p][j])
                    \/ SpecKey(base_rows[p][j]) # SpecKey(b))
                 => b \in Range(Rows(events_csv))
            /\ \E r \in Range(Rows(events_csv)) :
                 /\ SpecKey(r) = SpecKey(b)
                 /\ ~HasMarker(r)
                 /\ r \in Range(base_rows[p])

\* two marker-free base rows share a key: the first is kept, the second is
\* gone
C2_Witness ==
  \E p \in Procs :
    /\ pc[p] = "written"
    /\ \E i, j \in 1..Len(base_rows[p]) :
         /\ i < j
         /\ ~HasMarker(base_rows[p][i])
         /\ ~HasMarker(base_rows[p][j])
         /\ SpecKey(base_rows[p][i]) = SpecKey(base_rows[p][j])
         /\ base_rows[p][i] \in Range(Rows(events_csv))
         /\ base_rows[p][j] \notin Range(Rows(events_csv))

\* C3: the dataset written by the Merger holds no two rows of the same key
\* (date, lowercased venue, lowercased-trimmed title, start_time); for each
\* key of the cleaned base rows followed by the auto rows the row kept is
\* the first one of that key, so a base row wins over an auto row.
C3_UniqueKeysFirstWins ==
  \A p \in Procs : pc[p] = "written" =>
    LET rows == Rows(events_csv)
        merged == cleaned(base_rows[p]) \o auto_rows[p]
    IN  /\ \A i, j \in 1..Len(rows) :
             i # j => SpecKey(rows[i]) # SpecKey(rows[j])
        /\ \A m \in 1..Len(merged) :
             (\A n \in 1..(m - 1) : SpecKey(merged[n]) # SpecKey(merged[m]))
               => merged[m] \in Range(rows)
        /\ \A r \in Range(rows) :
             \E m \in 1..Len(merged) :
               /\ merged[m] = r
               /\ \A n \in 1..(m - 1) : SpecKey(merged[n]) # SpecKey(r)

\* a marker-free base row and a different auto row collide on the key: the
\* base row is written, the auto row is not
C3_Witness ==
  \E p \in Procs :
    /\ pc[p] = "written"
    /\ \E b \in Range(base_rows[p]) : \E a \in Range(auto_rows[p]) :
         /\ ~HasMarker(b)
         /\ a # b
         /\ SpecKey(a) = SpecKey(b)
         /\ b \in Range(Rows(events_csv))
         /\ a \notin Range(Rows(events_csv))

\* C4: a Merger run that follows a completed run, with the auto file
\* unchanged in between, leaves the dataset exactly as it found it (the
\* same rows in the same order).
C4_Idempotent ==
  \A p \in Procs : (pc[p] = "written" /\ rerun[p]) => events_csv = prev_csv[p]

\* a second run over a dataset of marker-bearing and marker-free rows
C4_Witness ==
  \E p \in Procs :
    /\ pc[p] = "written"
    /\ rerun[p]
    /\ \E r \in Range(Rows(events_csv)) : HasMarker(r)
    /\ \E r \in Range(Rows(events_csv)) : ~HasMarker(r)
    /\ Len(auto_rows[p]) = MaxAuto

\* C9: the rows written by the Merger are in strictly ascending order of
\* (date, start_time, venue, title), so no two share the tuple and, on one
\* date, a row with no start time precedes every row with one; sorting the
\* written rows again changes nothing.
C9_SortedFixedPoint ==
  \A p \in Procs : pc[p] = "written" =>
    LET rows == Rows(events_csv)
    IN  /\ \A i, j \in 1..Len(rows) :
             i < j => tuple_lt(SpecSortTuple(rows[i]), SpecSortTuple(rows[j]))
        /\ \A i, j \in 1..Len(rows) :
             (/\ rows[i].date = rows[j].date
              /\ rows[i].start_time = <<>>
              /\ rows[j].start_time # <<>>) => i < j
        /\ sort_rows(rows) = rows

\* the run wrote rows of two dates, one of them without a start time, in
\* another order than it read them
C9_Witness ==
  \E p \in Procs :
    /\ pc[p] = "written"
    /\ Rows(events_csv) # dedupe(cleaned(base_rows[p]) \o auto_rows[p])
    /\ \E r, s \in Range(Rows(events_csv)) :
         /\ r.date # s.date
         /\ \E t \in Range(Rows(events_csv)) :
              t.date = s.date /\ t.start_time = <<>> /\ s.start_time # <<>>

(***************************************************************************)
(* SpecIO: one Merger run over a dataset that holds rows, in which any     *)
(* file operation may fail.                                                *)
(***************************************************************************)

InitIO ==
  /\ InitMerger([p \in Procs |-> IF p = 1 THEN 1 ELSE 0])
  /\ Len(events_csv.lines) > 1
  /\ init_csv = NoFile
  /\ ExtractIdle
  /\ ClassifyIdle

NextIO ==
  \/ \E p \in Procs : ReadBase(p)
  \/ \E p \in Procs : ReadAuto(p)
  \/ \E p \in Procs : OpenWrite(p)
  \/ \E p \in Procs : WriteHeader(p)
  \/ \E p \in Procs : WriteRow(p)
  \/ \E p \in Procs : CloseFile(p)
  \/ \E p \in Procs : Exit(p)
  \/ \E p \in Procs : FailReadBase(p)
  \/ \E p \in Procs : FailReadAuto(p)
  \/ \E p \in Procs : FailOpen(p)
  \/ \E p \in Procs : FailWrite(p)

SpecIO == InitIO /\ [][NextIO]_vars

\* C6, as claimed: the dataset file changes only once both inputs are read
\* and the result is computed, and when a run aborts on an I/O failure the
\* file holds its complete previous content or the complete new content.
C6_NoPartialDataset ==
  \A p \in Procs :
    /\ pc[p] \in {"read_auto", "open"} => events_csv = prev_csv[p]
    /\ pc[p] = "aborted" => events_csv \in {prev_csv[p], write_csv(uniq[p])}

(***************************************************************************)
(* SpecRace: the scheduler starts two Merger runs over the same files and  *)
(* does not keep them apart.                                               *)
(***************************************************************************)

RaceBase == 1
RaceAuto == 1

InitRace ==
  /\ InitMerger([p \in Procs |-> 1])
  /\ Len(events_csv.lines) <= 1 + RaceBase
  /\ Len(auto_csv.lines) <= 1 + RaceAuto
  /\ init_csv = events_csv
  /\ ExtractIdle
  /\ ClassifyIdle

NextRace ==
  \/ \E p \in Procs : ReadBase(p)
  \/ \E p \in Procs : ReadAuto(p)
  \/ \E p \in Procs : OpenWrite(p)
  \/ \E p \in Procs : WriteHeader(p)
  \/ \E p \in Procs : WriteRow(p)
  \/ \E p \in Procs : CloseFile(p)
  \/ \E p \in Procs : Exit(p)

SpecRace == InitRace /\ [][NextRace]_vars

\* what two runs leave when one runs after the other (the two runs are the
\* same program over the same auto file, so both orders give this)
SerialResult ==
  LET auto == read_csv(auto_csv)
      first == write_csv(merge_rows(read_csv(init_csv), auto))
  IN  write_csv(merge_rows(read_csv(first), auto))

BothDone == \A p \in Procs : pc[p] = "done"

\* C10: two Merger runs that do not overlap leave the serial result; runs
\* that overlap are not kept from leaving another dataset (C10_Witness is
\* such an interleaving, in which a hand-entered base row is lost).
C10_SerialWhenNotOverlapping ==
  (BothDone /\ ~overlapped) => events_csv = SerialResult

\* both runs are over, they overlapped, and the dataset is not the serial
\* result: a marker-free row of the original dataset is missing
C10_Witness ==
  /\ BothDone
  /\ overlapped
  /\ events_csv # SerialResult
  /\ \E b \in Range(read_csv(init_csv)) :
       /\ ~HasMarker(b)
       /\ b \in Range(Rows(SerialResult))
       /\ b \notin Range(Rows(events_csv))

(***************************************************************************)
(* SpecExtract: one run of the extraction entry point, in either variant,  *)
(* over a page of up to MaxAnchors anchors.                                *)
(***************************************************************************)

InitExtraction == InitExtract /\ MergerIdle /\ ClassifyIdle

NextExtract ==
  \/ FetchOk
  \/ FetchFail
  \/ AnchorSkip
  \/ AnchorDateError
  \/ AnchorNoCategory
  \/ AnchorAppend
  \/ DedupeSort
  \/ EmitHeader
  \/ EmitRow
  \/ ExitOk

SpecExtract == InitExtraction /\ [][NextExtract]_vars

\* the events the loop is to append for the anchors html[1..n], in order
RECURSIVE Appended(_)
Appended(n) ==
  IF n = 0 THEN <<>>
  ELSE Bind(loop_body(html[n]), LAMBDA it :
         IF it.outcome = "append" THEN Append(Appended(n - 1), it.event)
         ELSE Appended(n - 1))

FetchSucceeded == idx >= 1

\* the run is at a statement it can execute: an iteration of the loop that
\* ends in one of the four ways, the de-duplication after the last anchor,
\* the header, a row, or the return
HasNextStatement ==
  \/ /\ epc = "loop"
     /\ idx <= Len(html)
     /\ loop_body(html[idx]).outcome
          \in {"skip", "date_error", "no_category", "append"}
  \/ epc = "loop" /\ idx > Len(html)
  \/ epc = "header"
  \/ epc = "rows" /\ Len(stdout) - 1 <= Len(e_uniq)

\* C5, as claimed: the extraction collapses two constructed records if and
\* only if they agree on (date, lowercased venue, lowercased-trimmed title,
\* start_time): every constructed record has a record of its key in the
\* de-duplicated output, and no two output records share the key.
C5_SameKeyAsMerger ==
  epc \in {"header", "rows", "done"} =>
    /\ \A i \in 1..Len(events) :
         \E r \in Range(e_uniq) : SpecKey(r) = SpecKey(events[i])
    /\ \A i, j \in 1..Len(e_uniq) :
         i # j => SpecKey(e_uniq[i]) # SpecKey(e_uniq[j])

\* C7: standard output is empty until the fetch has succeeded and the loop
\* is over; a run ends in failure only by the fetch failing, with status 1
\* and nothing written; a run whose fetch succeeded is never stopped before
\* its end, and at its end it has status 0 and has written the 12-column
\* header followed by the de-duplicated, sorted records, one row each; the
\* records are those of all the anchors that pass the filters, whatever
\* other anchors had a date strptime refuses.
C7_OutputOnlyAfterFetch ==
  /\ stdout # <<>> => FetchSucceeded /\ epc \in {"rows", "done"}
  /\ epc = "failed" => ~FetchSucceeded /\ exit_code = 1 /\ stdout = <<>>
  /\ exit_code # -1 <=> epc \in {"failed", "done"}
  /\ FetchSucceeded => epc = "done" \/ HasNextStatement
  /\ epc \in {"header", "rows", "done"} => events = Appended(Len(html))
  /\ epc = "done" =>
       /\ exit_code = 0
       /\ stdout[1] = HeaderLine
       /\ Len(stdout[1]) = 12
       /\ Len(stdout) = 1 + Len(e_uniq)
       /\ \A i \in 1..Len(e_uniq) : stdout[i + 1] = RowLine(e_uniq[i])
       /\ \A i \in 1..Len(events) :
            \E r \in Range(e_uniq) : event_key(r) = event_key(events[i])

\* the run is over with status 0; the first anchor had a date strptime
\* refuses, a later one was kept and is the row after the header
C7_Witness ==
  /\ epc = "done"
  /\ exit_code = 0
  /\ \E j, k \in 1..Len(html) :
       /\ j < k
       /\ loop_body(html[j]).outcome = "date_error"
       /\ loop_body(html[k]).outcome = "append"
       /\ stdout = <<HeaderLine, RowLine(loop_body(html[k]).event)>>

(***************************************************************************)
(* SpecClassify: classify_event applied to a title and a block text.       *)
(***************************************************************************)

InitClassification == InitClassify /\ MergerIdle /\ ExtractIdle

NextClassify == Classify

SpecClassify == InitClassification /\ [][NextClassify]_vars

\* `term in s.lower()`
Occurs(term, s) == contains(term, lower(s))

AnyFigureTerm ==
  \E k \in 1..Len(figure_terms) :
    Occurs(figure_terms[k], c_title) \/ Occurs(figure_terms[k], c_block)

MadroneOrDrinkDraw ==
  \/ Occurs(MADRONE_LC, c_title)
  \/ Occurs(MADRONE_LC, c_block)
  \/ (Occurs(DRINK, c_title) /\ Occurs(DRAW, c_title))
  \/ (Occurs(DRINK, c_block) /\ Occurs(DRAW, c_block))

\* C8: for every title and block text classify_event returns a category:
\* 'Figure Drawing' when a figure term occurs in either string, whatever
\* else occurs; otherwise 'Drink & Draw' when either string holds 'madrone'
\* or one string holds both 'drink' and 'draw'; otherwise None.  The caller
\* constructs a record exactly when the category is not None, so a record's
\* category is one of the two.
C8_ClassifyByKeywords ==
  c_result # Unclassified =>
    /\ c_result[1] = IF AnyFigureTerm THEN FIGURE_DRAWING
                     ELSE IF MadroneOrDrinkDraw THEN DRINK_AND_DRAW
                     ELSE None
    /\ c_kept <=> c_result[1] # None
    /\ c_kept => c_result[1] \in {FIGURE_DRAWING, DRINK_AND_DRAW}

\* a figure term and 'madrone' both occur, and the category is
\* 'Figure Drawing'
C8_Witness ==
  /\ c_result # Unclassified
  /\ AnyFigureTerm
  /\ MadroneOrDrinkDraw
  /\ c_result[1] = FIGURE_DRAWING
  /\ c_kept

====
